---- MODULE Spec2Model ----
(***************************************************************************)
(* Model of cmd/terf/extract.go: Extract in single-file mode and in        *)
(* directory mode (enumerator, worker pool under an errgroup, the          *)
(* goroutine that closes the result channel, and the aggregating caller),  *)
(* with extractFile, writeHeader and writeLabels.                          *)
(*                                                                         *)
(* Library behaviour the code relies on:                                   *)
(*  - errgroup: the first non-nil error returned by a function started    *)
(*    with g.Go is kept and cancels ctx; g.Wait waits for all of them,     *)
(*    cancels ctx and returns the kept error.                              *)
(*  - an unbuffered channel hands a value over when a sender and a         *)
(*    receiver are both ready; a select with several ready cases takes any *)
(*    of them; a range over a channel ends when the channel is closed.     *)
(*  - csv.Writer writes through a bufio.Writer whose first error is        *)
(*    sticky: later writes fail and w.Error() reports it after Flush.      *)
(***************************************************************************)
EXTENDS Integers, Sequences, FiniteSets, Bags, TLC

\* ---------------------------------------------------------------- bounds
MaxFiles == 2       \* entries of the input directory
MaxEntities == 3    \* entities of the input, all shards together
MaxThreads == 2     \* largest value of the threads option

\* runtime.NumCPU() of the modelled machine
NumCPU == 1

InfoFile == "info.csv"
outdir == "out"

\* ------------------------------------------------------------ input data
SeqsUpTo(S, n) == UNION { [1..k -> S] : k \in 0..n }

\* How the entities of an input are labelled and numbered:
\*   "unique": every shard has its own label and numbers its entities 1, 2, ...
\*   "same":   every entity carries the same (LabelText, ID), within a shard
\*             and across shards
\* The payload of every entity is its own.
Patterns == {"unique", "same"}

\* the image entity (terf.Image) at position p of file f
Entity(pat, f, p) ==
  [ID |-> IF pat = "same" THEN 1 ELSE p,
   LabelID |-> IF pat = "unique" THEN f ELSE 0,
   LabelText |-> IF pat = "unique" THEN "label" \o ToString(f) ELSE "cat",
   Organization |-> "org",
   Raw |-> "raw" \o ToString(f) \o "." \o ToString(p)]

\* one entry of the listing of the input directory
DirEntry == [isDir |-> TRUE, shard |-> <<>>]
FileEntry(s) == [isDir |-> FALSE, shard |-> s]

\* a listing: shape[f] is the number of entities of entry f, or -1 for a sub-directory
Listing(pat, shape) ==
  [f \in 1..Len(shape) |->
     IF shape[f] < 0 THEN DirEntry
     ELSE FileEntry([p \in 1..shape[f] |-> Entity(pat, f, p)])]

\* the number of entities of a listing of that shape
RECURSIVE Total(_)
Total(shape) ==
  IF shape = <<>> THEN 0
  ELSE (IF Head(shape) < 0 THEN 0 ELSE Head(shape)) + Total(Tail(shape))

Shapes == { sh \in SeqsUpTo((0 - 1)..MaxEntities, MaxFiles) : Total(sh) <= MaxEntities }

DirInputs == { Listing(pat, sh) : pat \in Patterns, sh \in Shapes }

FileInputs ==
  { Listing(pat, <<n>>) : pat \in Patterns, n \in 0..MaxEntities }

ThreadChoices == (0 - 1)..MaxThreads

\* ---------------------------------------------------------------- errors
Err(kind, file, pos) == [kind |-> kind, file |-> file, pos |-> pos]
\* the error extractFile returns for file f when it fails at position pos (0: before
\* the first record); Extract treats all of them alike, the failing call is not kept
ExtractErr(file, pos) == Err("extractFile", file, pos)
Nil == Err("nil", 0, 0)
Canceled == Err("context canceled", 0, 0)
NoImages == Err("No images found", 0, 0)

\* ------------------------------------------------------------- variables
VARIABLES
  inputIsDir,   \* stat.IsDir() of inputPath
  files,        \* the input: the directory listing, or the one shard file
  threads,      \* the threads argument
  ctxDone,      \* ctx of the errgroup is cancelled
  gErr,         \* the error kept by the errgroup
  firstErr,     \* history: the first non-nil error a function of the group returned
  otherFail,    \* history: a later function of the group failed too (not by cancellation)
  pathsClosed,  \* close(paths) has run
  imagesClosed, \* close(images) has run
  enum,         \* the enumerator goroutine: [pc, i]
  wk,           \* the workers, a bag of [pc, path, pos, images]: workers are alike
  closer,       \* the goroutine of g.Wait(); close(images)
  mainPc,       \* position of Extract itself
  mainPos,      \* single-file mode: position of extractFile in the shard
  mainImages,   \* single-file mode: images accumulated by extractFile
  ret,          \* the error Extract returned (Nil until it returns)
  disk,         \* image files: path -> payload
  saved,        \* history: <<file, pos>> of every successful img.Save
  index,        \* info.csv and its csv.Writer
  arrived,      \* history: files whose RunResult the aggregator received, in order
  taken,        \* history: files whose path a worker received from paths, in order
  dropped       \* history: <<file, why>> of every shard a worker took and gave no result for

vars == <<inputIsDir, files, threads, ctxDone, gErr, firstErr, otherFail, pathsClosed, imagesClosed,
          enum, wk, closer, mainPc, mainPos, mainImages, ret, disk, saved, index, arrived,
          taken, dropped>>

\* ---------------------------------------------------------- pure helpers
\* filepath.Join: drops empty elements, joins with "/" and cleans "." elements
RECURSIVE JoinClean(_)
JoinClean(elems) ==
  IF elems = <<>> THEN ""
  ELSE IF Head(elems) \in {"", "."} THEN JoinClean(Tail(elems))
  ELSE LET rest == JoinClean(Tail(elems))
       IN IF rest = "" THEN Head(elems) ELSE Head(elems) \o "/" \o rest

\* fname := filepath.Join(outdir, img.LabelText, fmt.Sprintf("%d.jpg", img.ID))
FName(img) == JoinClean(<<outdir, img.LabelText, ToString(img.ID) \o ".jpg">>)

\* variant: the record's path leaves out the label directory
NewImageRecord_NoLabelDir(img, fname, src) ==
  [Path |-> JoinClean(<<outdir, ToString(img.ID) \o ".jpg">>), ID |-> img.ID,
   LabelID |-> img.LabelID, LabelText |-> img.LabelText,
   Organization |-> img.Organization, src |-> src]

\* ir := &ImageRecord{...}; src is a history tag (file, position), not a field
NewImageRecord(img, fname, src) ==
  [Path |-> fname, ID |-> img.ID, LabelID |-> img.LabelID,
   LabelText |-> img.LabelText, Organization |-> img.Organization, src |-> src]

\* record := []string{i.Path, Itoa(i.ID), Itoa(i.LabelID), i.LabelText, i.Organization}
Row(i) == <<i.Path, ToString(i.ID), ToString(i.LabelID), i.LabelText, i.Organization>>

\* variant: a negative thread count is taken as the default
NumWorkers_NegativeAsDefault(t) == IF t <= 0 THEN NumCPU ELSE t

\* threads == 0 -> runtime.NumCPU(); the loop i < threads starts no worker when threads < 0
NumWorkers(t) == IF t = 0 THEN NumCPU ELSE IF t > 0 THEN t ELSE 0

\* the pool as started by the loop at line 125: n workers waiting for a path
IdleWorker == [pc |-> "recv", path |-> 0, pos |-> 0, images |-> <<>>]
DoneWorker == [pc |-> "done", path |-> 0, pos |-> 0, images |-> <<>>]
Pool(n) == [r \in (IF n > 0 THEN {IdleWorker} ELSE {}) |-> n]

\* the workers in their different states
Workers == BagToSet(wk)

\* one worker in state old moves to state new
Move(b, old, new) == (b (-) SetToBag({old})) (+) SetToBag({new})

\* variant: a sub-directory ends the loop (break for continue)
NextFile_Break(fs, i) ==
  IF i + 1 > Len(fs) THEN 0
  ELSE IF fs[i + 1].isDir THEN 0
  ELSE i + 1

\* variant: sub-directories are offered like files
NextFile_NoSkip(fs, i) == IF i + 1 > Len(fs) THEN 0 ELSE i + 1

\* for _, f := range files { if f.IsDir() { continue } ... }: next entry offered after i
RECURSIVE NextFile(_, _)
NextFile(fs, i) ==
  IF i + 1 > Len(fs) THEN 0
  ELSE IF fs[i + 1].isDir THEN NextFile(fs, i + 1)
  ELSE i + 1

\* errgroup: g.errOnce.Do(func() { g.err = err; cancel() })
ErrOnce(cur, err) == IF cur = Nil THEN err ELSE cur

\* variant: the error of the writer is not looked at
WError_Unchecked(ix) == Nil

\* w.Error() after w.Flush(): the sticky error of the writer
WError(ix) == ix.err

NoIndex == [created |-> FALSE, header |-> 0, rows |-> <<>>, src |-> <<>>,
            err |-> Nil, flushed |-> FALSE]

\* ------------------------------------------------------------------ Init
Init ==
  /\ inputIsDir \in BOOLEAN
  /\ threads \in ThreadChoices
  /\ files \in IF inputIsDir THEN DirInputs ELSE FileInputs
  /\ ctxDone = FALSE
  /\ gErr = Nil
  /\ firstErr = Nil
  /\ otherFail = FALSE
  /\ pathsClosed = FALSE
  /\ imagesClosed = FALSE
  /\ enum = IF inputIsDir THEN [pc |-> "readdir", i |-> 0] ELSE [pc |-> "none", i |-> 0]
  /\ wk = Pool(IF inputIsDir THEN NumWorkers(threads) ELSE 0)
  /\ closer = IF inputIsDir THEN "wait" ELSE "none"
  /\ mainPc = IF inputIsDir THEN "create" ELSE "extract"
  /\ mainPos = IF inputIsDir THEN 0 ELSE 1
  /\ mainImages = <<>>
  /\ ret = Nil
  /\ disk = [p \in {} |-> ""]
  /\ saved = {}
  /\ index = NoIndex
  /\ arrived = <<>>
  /\ taken = <<>>
  /\ dropped = {}

\* ----------------------------------------------------------- extractFile
\* What one pass of the loop of extractFile can do at position pos of a shard:
\* os.Open / zlib.NewReader fail before the first r.Next(); r.Next() gives io.EOF
\* after the last record; before, the record is saved or one of r.Next,
\* NewImageFromExample, MkdirAll and Save fails. (A record that cannot be read is
\* an entity of the shard whose decoding fails.)
Outcomes(shard, pos) ==
  (IF pos = 1 THEN {"open"} ELSE {}) \cup
  (IF pos > Len(shard) THEN {"eof"} ELSE {"ok", "decode", "mkdir", "save"})

\* variant: the error of img.Save is not checked and the record is appended
ExtractStep_IgnoreSaveErr(shard, f, pos, images, o) ==
  IF o = "eof"
  THEN [err |-> Nil, eof |-> TRUE, write |-> {}, images |-> images]
  ELSE IF o \in {"ok", "save"}
  THEN LET img == shard[pos]
           fname == FName(img)
       IN [err |-> Nil, eof |-> FALSE,
           write |-> IF o = "ok" THEN {<<fname, img.Raw>>} ELSE {},
           images |-> Append(images, NewImageRecord(img, fname, <<f, pos>>))]
  ELSE [err |-> ExtractErr(f, IF o = "open" THEN 0 ELSE pos), eof |-> FALSE,
        write |-> {}, images |-> <<>>]

\* One pass of the loop of extractFile on file f at position pos with outcome o:
\* the error it returns, whether the loop ended, the file it wrote, the images.
ExtractStep(shard, f, pos, images, o) ==
  IF o = "eof"
  THEN [err |-> Nil, eof |-> TRUE, write |-> {}, images |-> images]
  ELSE IF o = "ok"
  THEN LET img == shard[pos]
           fname == FName(img)
       IN [err |-> Nil, eof |-> FALSE, write |-> {<<fname, img.Raw>>},
           images |-> Append(images, NewImageRecord(img, fname, <<f, pos>>))]
  ELSE [err |-> ExtractErr(f, IF o = "open" THEN 0 ELSE pos), eof |-> FALSE,
        write |-> {}, images |-> <<>>]

\* variant: an existing file is left as it is
Save_KeepExisting(d, write) ==
  [p \in DOMAIN d \cup { x[1] : x \in write } |->
     IF p \in DOMAIN d THEN d[p] ELSE (CHOOSE x \in write : x[1] = p)[2]]

\* img.Save(fname): the file holds the payload afterwards
Save(d, write) ==
  [p \in DOMAIN d \cup { x[1] : x \in write } |->
     IF \E x \in write : x[1] = p THEN (CHOOSE x \in write : x[1] = p)[2] ELSE d[p]]

\* ------------------------------------------------------------ csv writer
\* writeHeader(w)
WriteHeader(ix, ok) ==
  IF ok /\ ix.err = Nil
  THEN [ix EXCEPT !.header = @ + 1]
  ELSE [ix EXCEPT !.err = IF @ = Nil THEN Err("header", 0, 0) ELSE @]

\* the numbers of rows w.Write can accept before it fails (all of them: no failure)
WriteChoices(ix, images) == IF ix.err # Nil THEN {0} ELSE 0..Len(images)

\* variant: the rows are written last to first
WriteLabels_Reversed(ix, images, k) ==
  [ix EXCEPT !.rows = @ \o [j \in 1..k |-> Row(images[k + 1 - j])],
             !.src = @ \o [j \in 1..k |-> images[k + 1 - j].src],
             !.err = IF @ = Nil /\ k < Len(images) THEN Err("write", 0, 0) ELSE @]

\* variant: every call writes the header again before its rows
WriteLabels_HeaderEach(ix, images, k) ==
  [ix EXCEPT !.header = IF ix.err = Nil THEN @ + 1 ELSE @,
             !.rows = @ \o [j \in 1..k |-> Row(images[j])],
             !.src = @ \o [j \in 1..k |-> images[j].src],
             !.err = IF @ = Nil /\ k < Len(images) THEN Err("write", 0, 0) ELSE @]

\* writeLabels(w, images) when w.Write fails after k rows (k = Len(images): never)
WriteLabels(ix, images, k) ==
  [ix EXCEPT !.rows = @ \o [j \in 1..k |-> Row(images[j])],
             !.src = @ \o [j \in 1..k |-> images[j].src],
             !.err = IF @ = Nil /\ k < Len(images) THEN Err("write", 0, 0) ELSE @]

\* w.Flush()
Flush(ix, ok) ==
  IF ix.err # Nil THEN ix
  ELSE IF ok THEN [ix EXCEPT !.flushed = TRUE]
  ELSE [ix EXCEPT !.err = Err("flush", 0, 0)]

\* -------------------------------------------------------------- errgroup
\* the wrapper of g.Go when the function returns err: keep the first error and cancel
GroupReturn(err) ==
  /\ gErr' = IF err # Nil THEN ErrOnce(gErr, err) ELSE gErr
  /\ ctxDone' = (ctxDone \/ err # Nil)
  /\ firstErr' = IF firstErr = Nil THEN err ELSE firstErr
  /\ otherFail' = (otherFail \/ (firstErr # Nil /\ err # Nil /\ err # Canceled))

GroupDone == enum.pc = "done" /\ \A w \in Workers : w.pc = "done"

\* ------------------------------------------------------------ enumerator
\* the enumerator moves on after entry i: offers the next file or returns nil
EnumAdvance(i) ==
  LET n == NextFile(files, i)
  IN IF n = 0
     THEN /\ enum' = [pc |-> "done", i |-> 0]
          /\ pathsClosed' = TRUE
     ELSE /\ enum' = [pc |-> "offer", i |-> n]
          /\ pathsClosed' = pathsClosed

\* files, err := ioutil.ReadDir(inputPath)
EnumReadDir ==
  /\ enum.pc = "readdir"
  /\ \/ /\ enum' = [pc |-> "done", i |-> 0]
        /\ pathsClosed' = TRUE
        /\ GroupReturn(Err("readdir", 0, 0))
     \/ /\ EnumAdvance(0)
        /\ GroupReturn(Nil)
  /\ UNCHANGED <<inputIsDir, files, threads, taken, dropped, imagesClosed, wk, closer, mainPc, mainPos,
                 mainImages, ret, disk, saved, index, arrived>>

\* variant: a worker takes the next path without waiting for its result to be received
EnumSend_ResultPending(w) ==
  /\ enum.pc = "offer"
  /\ w.pc \in {"recv", "send"}
  /\ wk' = Move(wk, w, [pc |-> "extract", path |-> enum.i, pos |-> 1, images |-> <<>>])
  /\ taken' = Append(taken, enum.i)
  /\ EnumAdvance(enum.i)
  /\ GroupReturn(Nil)
  /\ UNCHANGED <<inputIsDir, files, threads, dropped, imagesClosed, closer, mainPc, mainPos,
                 mainImages, ret, disk, saved, index, arrived>>

\* case paths <- filepath.Join(inputPath, f.Name()), received by worker w
EnumSend(w) ==
  /\ enum.pc = "offer"
  /\ w.pc = "recv"
  /\ wk' = Move(wk, w, [pc |-> "extract", path |-> enum.i, pos |-> 1, images |-> <<>>])
  /\ taken' = Append(taken, enum.i)
  /\ EnumAdvance(enum.i)
  /\ GroupReturn(Nil)
  /\ UNCHANGED <<inputIsDir, files, threads, dropped, imagesClosed, closer, mainPc, mainPos,
                 mainImages, ret, disk, saved, index, arrived>>

\* variant: the select of the enumerator has no case for ctx.Done()
EnumCancel_Missing ==
  /\ enum.pc = "offer"
  /\ FALSE
  /\ UNCHANGED vars

\* case <-ctx.Done(): return ctx.Err()
EnumCancel ==
  /\ enum.pc = "offer"
  /\ ctxDone
  /\ enum' = [pc |-> "done", i |-> 0]
  /\ pathsClosed' = TRUE
  /\ GroupReturn(Canceled)
  /\ UNCHANGED <<inputIsDir, files, threads, taken, dropped, imagesClosed, wk, closer, mainPc, mainPos,
                 mainImages, ret, disk, saved, index, arrived>>

\* --------------------------------------------------------------- workers
\* for path := range paths ends: paths is closed
WorkerClosed(w) ==
  /\ w.pc = "recv"
  /\ pathsClosed
  /\ wk' = Move(wk, w, DoneWorker)
  /\ GroupReturn(Nil)
  /\ UNCHANGED <<inputIsDir, files, threads, taken, dropped, pathsClosed, imagesClosed, enum, closer,
                 mainPc, mainPos, mainImages, ret, disk, saved, index, arrived>>

\* variant: a worker whose extractFile fails sends the records it has so far
WorkerExtract_SendPartial(w) ==
  /\ w.pc = "extract"
  /\ \E o \in Outcomes(files[w.path].shard, w.pos) :
       LET r == ExtractStep(files[w.path].shard, w.path, w.pos, w.images, o)
       IN /\ disk' = Save(disk, r.write)
          /\ saved' = IF r.write # {} THEN saved \cup {<<w.path, w.pos>>} ELSE saved
          /\ IF r.err # Nil \/ r.eof
             THEN wk' = Move(wk, w, [w EXCEPT !.pc = "send"])
             ELSE wk' = Move(wk, w, [w EXCEPT !.pos = @ + 1, !.images = r.images])
          /\ dropped' = IF r.err # Nil THEN dropped \cup {<<w.path, "failed">>} ELSE dropped
          /\ GroupReturn(Nil)
  /\ UNCHANGED <<inputIsDir, files, threads, taken, pathsClosed, imagesClosed, enum, closer,
                 mainPc, mainPos, mainImages, ret, index, arrived>>

\* im, err := extractFile(path, outdir, compress), one entity at a time
WorkerExtract(w) ==
  /\ w.pc = "extract"
  /\ \E o \in Outcomes(files[w.path].shard, w.pos) :
       LET r == ExtractStep(files[w.path].shard, w.path, w.pos, w.images, o)
       IN /\ disk' = Save(disk, r.write)
          /\ saved' = IF r.write # {} THEN saved \cup {<<w.path, w.pos>>} ELSE saved
          /\ IF r.err # Nil
             THEN wk' = Move(wk, w, DoneWorker)
             ELSE IF r.eof
             THEN wk' = Move(wk, w, [w EXCEPT !.pc = "send"])
             ELSE wk' = Move(wk, w, [w EXCEPT !.pos = @ + 1, !.images = r.images])
          /\ dropped' = IF r.err # Nil THEN dropped \cup {<<w.path, "failed">>} ELSE dropped
          /\ GroupReturn(r.err)
  /\ UNCHANGED <<inputIsDir, files, threads, taken, pathsClosed, imagesClosed, enum, closer,
                 mainPc, mainPos, mainImages, ret, index, arrived>>

\* case images <- im, received by for i := range images { writeLabels(w, i) }
WorkerSend(w) ==
  /\ w.pc = "send"
  /\ mainPc = "range"
  /\ \E k \in WriteChoices(index, w.images) :
       index' = WriteLabels(index, w.images, k)
  /\ arrived' = Append(arrived, w.path)
  /\ wk' = Move(wk, w, IdleWorker)
  /\ UNCHANGED <<inputIsDir, files, threads, taken, dropped, ctxDone, gErr, firstErr, otherFail, pathsClosed, imagesClosed,
                 enum, closer, mainPc, mainPos, mainImages, ret, disk, saved>>

\* case <-ctx.Done(): return ctx.Err()
WorkerCancel(w) ==
  /\ w.pc = "send"
  /\ ctxDone
  /\ wk' = Move(wk, w, DoneWorker)
  /\ dropped' = dropped \cup {<<w.path, "canceled">>}
  /\ GroupReturn(Canceled)
  /\ UNCHANGED <<inputIsDir, files, threads, taken, pathsClosed, imagesClosed, enum, closer,
                 mainPc, mainPos, mainImages, ret, disk, saved, index, arrived>>

\* variant: the goroutine closes images without waiting for the group
CloserWait_NoWait ==
  /\ closer = "wait"
  /\ closer' = "done"
  /\ imagesClosed' = TRUE
  /\ UNCHANGED <<inputIsDir, files, threads, taken, dropped, ctxDone, gErr, firstErr, otherFail,
                 pathsClosed, enum, wk, mainPc, mainPos, mainImages, ret, disk, saved, index,
                 arrived>>

\* variant: the goroutine waits for the group and does not close images
CloserWait_NoClose ==
  /\ closer = "wait"
  /\ GroupDone
  /\ closer' = "done"
  /\ ctxDone' = TRUE
  /\ UNCHANGED <<inputIsDir, files, threads, taken, dropped, gErr, firstErr, otherFail,
                 pathsClosed, imagesClosed, enum, wk, mainPc, mainPos, mainImages, ret, disk,
                 saved, index, arrived>>

\* go func() { g.Wait(); close(images) }()
CloserWait ==
  /\ closer = "wait"
  /\ GroupDone
  /\ closer' = "done"
  /\ ctxDone' = TRUE
  /\ imagesClosed' = TRUE
  /\ UNCHANGED <<inputIsDir, files, threads, taken, dropped, gErr, firstErr, otherFail, pathsClosed, enum, wk, mainPc,
                 mainPos, mainImages, ret, disk, saved, index, arrived>>

\* ------------------------------------------------------- Extract itself
\* variant: single-file mode without the check of len(images)
MainExtract_NoLenCheck ==
  /\ mainPc = "extract"
  /\ \E o \in Outcomes(files[1].shard, mainPos) :
       LET r == ExtractStep(files[1].shard, 1, mainPos, mainImages, o)
       IN /\ disk' = Save(disk, r.write)
          /\ saved' = IF r.write # {} THEN saved \cup {<<1, mainPos>>} ELSE saved
          /\ mainImages' = r.images
          /\ IF r.err # Nil
             THEN mainPc' = "returned" /\ ret' = r.err /\ mainPos' = mainPos
             ELSE IF r.eof
             THEN mainPc' = "create" /\ ret' = ret /\ mainPos' = mainPos
             ELSE mainPc' = mainPc /\ ret' = ret /\ mainPos' = mainPos + 1
  /\ UNCHANGED <<inputIsDir, files, threads, taken, dropped, ctxDone, gErr, firstErr, otherFail,
                 pathsClosed, imagesClosed, enum, wk, closer, index, arrived>>

\* single-file mode: images, err := extractFile(inputPath, ...); len(images) == 0
MainExtract ==
  /\ mainPc = "extract"
  /\ \E o \in Outcomes(files[1].shard, mainPos) :
       LET r == ExtractStep(files[1].shard, 1, mainPos, mainImages, o)
       IN /\ disk' = Save(disk, r.write)
          /\ saved' = IF r.write # {} THEN saved \cup {<<1, mainPos>>} ELSE saved
          /\ mainImages' = r.images
          /\ IF r.err # Nil
             THEN mainPc' = "returned" /\ ret' = r.err /\ mainPos' = mainPos
             ELSE IF r.eof
             THEN IF Len(r.images) = 0
                  THEN mainPc' = "returned" /\ ret' = NoImages /\ mainPos' = mainPos
                  ELSE mainPc' = "create" /\ ret' = ret /\ mainPos' = mainPos
             ELSE mainPc' = mainPc /\ ret' = ret /\ mainPos' = mainPos + 1
  /\ UNCHANGED <<inputIsDir, files, threads, taken, dropped, ctxDone, gErr, firstErr, otherFail, pathsClosed, imagesClosed,
                 enum, wk, closer, index, arrived>>

\* out, err := os.Create(...); w := csv.NewWriter(out); err = writeHeader(w):
\* o tells which of the two calls fails, if any
OpenIndex(ix, o) ==
  IF o = "create" THEN ix
  ELSE WriteHeader([ix EXCEPT !.created = TRUE], o = "ok")

\* variant: single-file mode creates info.csv before extractFile has finished
MainOpenIndex_Early ==
  /\ mainPc \in {"create", "extract"}
  /\ ~index.created
  /\ \E o \in {"ok", "create", "header"} :
       /\ index' = OpenIndex(index, o)
       /\ IF o = "ok"
          THEN /\ mainPc' = (IF mainPc = "extract" THEN mainPc
                             ELSE IF inputIsDir THEN "range" ELSE "labels")
               /\ ret' = ret
          ELSE mainPc' = "returned" /\ ret' = Err(o, 0, 0)
  /\ UNCHANGED <<inputIsDir, files, threads, taken, dropped, ctxDone, gErr, firstErr, otherFail, pathsClosed,
                 imagesClosed, enum, wk, closer, mainPos, mainImages, disk, saved, arrived>>

\* lines 76-86 and 149-159: create info.csv and write the header, or return the error
MainOpenIndex ==
  /\ mainPc = "create"
  /\ \E o \in {"ok", "create", "header"} :
       /\ index' = OpenIndex(index, o)
       /\ IF o = "ok"
          THEN mainPc' = (IF inputIsDir THEN "range" ELSE "labels") /\ ret' = ret
          ELSE mainPc' = "returned" /\ ret' = Err(o, 0, 0)
  /\ UNCHANGED <<inputIsDir, files, threads, taken, dropped, ctxDone, gErr, firstErr, otherFail, pathsClosed,
                 imagesClosed, enum, wk, closer, mainPos, mainImages, disk, saved, arrived>>

\* single-file mode: writeLabels(w, images), its error dropped
MainLabels ==
  /\ mainPc = "labels"
  /\ \E k \in WriteChoices(index, mainImages) :
       index' = WriteLabels(index, mainImages, k)
  /\ mainPc' = "flush"
  /\ UNCHANGED <<inputIsDir, files, threads, taken, dropped, ctxDone, gErr, firstErr, otherFail, pathsClosed, imagesClosed,
                 enum, wk, closer, mainPos, mainImages, ret, disk, saved, arrived>>

\* w.Flush(); if err := w.Error(); err != nil { return err }; return nil
FlushAndReturn(ok) ==
  /\ index' = Flush(index, ok)
  /\ ret' = WError(index')
  /\ mainPc' = "returned"

\* variant: the error of g.Wait() is dropped
MainWait_IgnoreErr ==
  /\ mainPc = "range"
  /\ imagesClosed
  /\ \E ok \in BOOLEAN : FlushAndReturn(ok)
  /\ UNCHANGED <<inputIsDir, files, threads, taken, dropped, ctxDone, gErr, firstErr, otherFail, pathsClosed,
                 imagesClosed, enum, wk, closer, mainPos, mainImages, disk, saved, arrived>>

\* variant: directory mode fails like single-file mode when no row was written
MainWait_NoImages ==
  /\ mainPc = "range"
  /\ imagesClosed
  /\ IF gErr # Nil
     THEN mainPc' = "returned" /\ ret' = gErr /\ index' = index
     ELSE IF index.rows = <<>>
     THEN mainPc' = "returned" /\ ret' = NoImages /\ index' = index
     ELSE \E ok \in BOOLEAN : FlushAndReturn(ok)
  /\ UNCHANGED <<inputIsDir, files, threads, taken, dropped, ctxDone, gErr, firstErr, otherFail,
                 pathsClosed, imagesClosed, enum, wk, closer, mainPos, mainImages, disk, saved,
                 arrived>>

\* directory mode: range images ends (images is closed); err := g.Wait() is
\* returned, or the index is flushed
MainWait ==
  /\ mainPc = "range"
  /\ imagesClosed
  /\ IF gErr # Nil
     THEN mainPc' = "returned" /\ ret' = gErr /\ index' = index
     ELSE \E ok \in BOOLEAN : FlushAndReturn(ok)
  /\ UNCHANGED <<inputIsDir, files, threads, taken, dropped, ctxDone, gErr, firstErr, otherFail, pathsClosed,
                 imagesClosed, enum, wk, closer, mainPos, mainImages, disk, saved, arrived>>

\* single-file mode: lines 90-95
MainFlush ==
  /\ mainPc = "flush"
  /\ \E ok \in BOOLEAN : FlushAndReturn(ok)
  /\ UNCHANGED <<inputIsDir, files, threads, taken, dropped, ctxDone, gErr, firstErr, otherFail, pathsClosed,
                 imagesClosed, enum, wk, closer, mainPos, mainImages, disk, saved, arrived>>

Next ==
  \/ EnumReadDir
  \/ \E w \in Workers : EnumSend(w)
  \/ EnumCancel
  \/ \E w \in Workers : WorkerClosed(w)
  \/ \E w \in Workers : WorkerExtract(w)
  \/ \E w \in Workers : WorkerSend(w)
  \/ \E w \in Workers : WorkerCancel(w)
  \/ CloserWait
  \/ MainExtract
  \/ MainOpenIndex
  \/ MainLabels
  \/ MainWait
  \/ MainFlush

Spec == Init /\ [][Next]_vars

\* The steps of each goroutine. A handoff on an unbuffered channel is a step of
\* both its sender and its receiver.
EnumNext == EnumReadDir \/ (\E w \in Workers : EnumSend(w)) \/ EnumCancel

PoolNext ==
  \E w \in Workers :
    EnumSend(w) \/ WorkerClosed(w) \/ WorkerExtract(w) \/ WorkerSend(w) \/ WorkerCancel(w)

MainNext ==
  MainExtract \/ MainOpenIndex \/ MainLabels \/ MainWait \/ MainFlush
    \/ (\E w \in Workers : WorkerSend(w))

\* The inputs of the runs checked for progress: labels and ids play no part in
\* the scheduling, so the entities are those that are saved to files of their own.
FairInit ==
  /\ Init
  /\ \A f, g \in DOMAIN files : \A p \in DOMAIN files[f].shard, q \in DOMAIN files[g].shard :
       <<f, p>> # <<g, q>> => FName(files[f].shard[p]) # FName(files[g].shard[q])

\* The Go scheduler runs every goroutine that can take a step, and every file
\* operation returns: no goroutine that stays able to step is left waiting.
FairSpec ==
  /\ FairInit /\ [][Next]_vars
  /\ WF_vars(EnumNext) /\ WF_vars(PoolNext) /\ WF_vars(CloserWait) /\ WF_vars(MainNext)

\* =================================================================== claims
Range(q) == { q[i] : i \in DOMAIN q }
BagOfSeq(q) == [x \in Range(q) |-> Cardinality({ i \in DOMAIN q : q[i] = x })]

Returned == mainPc = "returned"

\* the positions <<f, p>> of all entities of the input, in listing order
RECURSIVE AllSrc(_, _)
AllSrc(fs, f) ==
  IF f > Len(fs) THEN <<>>
  ELSE (IF fs[f].isDir THEN <<>> ELSE [p \in 1..Len(fs[f].shard) |-> <<f, p>>])
       \o AllSrc(fs, f + 1)

EntityAt(src) == files[src[1]].shard[src[2]]

\* the row the index holds for the entity at src
RowOf(src) ==
  LET e == EntityAt(src)
  IN <<outdir \o "/" \o e.LabelText \o "/" \o ToString(e.ID) \o ".jpg",
       ToString(e.ID), ToString(e.LabelID), e.LabelText, e.Organization>>

ExpectedRows == [i \in DOMAIN AllSrc(files, 1) |-> RowOf(AllSrc(files, 1)[i])]

\* errors of the aggregator side: index creation, header, rows, flush
AggregatorFailed ==
  \/ index.err # Nil
  \/ ret.kind \in {"create", "header", "write", "flush"}

\* the errors with which the processing of a shard failed
ShardErrs ==
  { e \in {IF inputIsDir THEN firstErr ELSE ret} : e.kind = "extractFile" }

\* C1: first-error-wins: in directory mode, when the enumerator or a worker has
\* failed, Extract returns the error of the participant that failed first,
\* never nil and never the cancellation error.
C1_FirstErrorWins ==
  [][(inputIsDir /\ mainPc # "returned" /\ mainPc' = "returned" /\ firstErr # Nil)
       => (ret' = firstErr /\ ret' # Nil /\ ret' # Canceled)]_vars

\* C2: the first error of any participant, the aggregator side included (index
\* creation, header, rows, flush), cancels the shared scope.
C2_AggregatorErrorCancels ==
  (inputIsDir /\ AggregatorFailed) => ctxDone

\* C3: concurrency-count invariance: when Extract returns successfully in
\* directory mode, the rows of the index are, as a multiset, the records of all
\* entities of all non-directory entries, each exactly once, whatever the
\* thread count and the interleaving.
C3_CountInvariance ==
  (inputIsDir /\ Returned /\ ret = Nil)
    => /\ BagOfSeq(index.rows) = BagOfSeq(ExpectedRows)
       /\ BagOfSeq(index.src) = BagOfSeq(AllSrc(files, 1))
       /\ \A i \in DOMAIN index.src : Cardinality({ j \in DOMAIN index.src :
                                                      index.src[j] = index.src[i] }) = 1

C3_Witness ==
  /\ inputIsDir /\ Returned /\ ret = Nil
  /\ threads = MaxThreads
  /\ Len(index.rows) >= 3
  /\ \E i, j \in DOMAIN index.src : index.src[i][1] # index.src[j][1]

\* C4: failure propagation: when the N-th entity of a shard fails (decode,
\* directory creation or save) and nothing else fails, Extract returns that
\* error, exactly the first N-1 images of that shard have been saved and are on
\* disk, and no row of the index is the failing entity's; in both modes.
C4_FailurePropagation ==
  \A e \in ShardErrs :
    (/\ Returned
     /\ e.pos >= 1
     /\ ~otherFail
     /\ ~AggregatorFailed)
      => /\ ret = e
         /\ { s \in saved : s[1] = e.file } = { <<e.file, i>> : i \in 1..(e.pos - 1) }
         /\ \A i \in 1..(e.pos - 1) : FName(files[e.file].shard[i]) \in DOMAIN disk
         /\ \A j \in DOMAIN index.src : index.src[j] # <<e.file, e.pos>>

C4_Witness ==
  /\ inputIsDir /\ Returned /\ threads = MaxThreads
  /\ \E e \in ShardErrs :
       /\ ~otherFail /\ ~AggregatorFailed
       /\ e.pos = 2
       /\ <<e.file, 1>> \in saved
       /\ ret = e
       /\ Len(index.rows) > 0

\* some shard is still unprocessed or being processed
ShardsPending ==
  IF inputIsDir
  THEN \/ enum.pc = "readdir" /\ NextFile(files, 0) # 0
       \/ enum.pc = "offer"
       \/ \E w \in Workers : w.pc = "extract"
  ELSE mainPc = "extract"

\* C5 (as stated): while some shard is unprocessed or being processed, info.csv
\* has not been created and holds no header and no row, in both modes.
C5_NoPartialIndex ==
  ShardsPending => (~index.created /\ index.header = 0 /\ index.rows = <<>>)

\* C5 (amended): in single-file mode info.csv is created and written only after
\* the shard has been processed completely; in directory mode only the final
\* flush waits for the enumerator and all workers to have returned.
C5_IndexAfterProcessing ==
  /\ (~inputIsDir /\ mainPc = "extract") => index = NoIndex
  /\ (~inputIsDir /\ index.created)
       => { s[2] : s \in saved } = 1..Len(files[1].shard)
  /\ (inputIsDir /\ index.flushed) => GroupDone

C5_Witness ==
  /\ ~inputIsDir /\ index.created /\ index.header = 1
  /\ Len(index.rows) >= 2
  /\ index.flushed

\* no two entities of the input are written to the same image file
InputPathsDistinct ==
  LET all == AllSrc(files, 1)
      path == [i \in DOMAIN all |-> RowOf(all[i])[1]]
  IN \A i, j \in DOMAIN all : i # j => path[i] # path[j]

RowPathsDistinct ==
  \A i, j \in DOMAIN index.rows : i # j => index.rows[i][1] # index.rows[j][1]

\* C6 (as stated): no two rows of the index share a path, for every input.
C6_PathUnique == RowPathsDistinct

\* C6 (amended): no two rows of the index share a path when no two entities of
\* the input map to the same output file; entities with the same
\* (LabelText, ID) give rows with the same path.
C6_PathUniqueForDistinctInput == InputPathsDistinct => RowPathsDistinct

C6_Witness ==
  /\ inputIsDir /\ InputPathsDistinct /\ Returned /\ ret = Nil
  /\ Len(index.rows) >= 3
  /\ \E i, j \in DOMAIN index.rows :
       /\ index.rows[i][2] = index.rows[j][2]
       /\ index.rows[i][1] # index.rows[j][1]

\* all image records held by extractFile, a worker or the index
HeldRecords ==
  Range(mainImages) \cup UNION { Range(w.images) : w \in Workers }

\* C7: an image record exists exactly when the save of its image succeeded:
\* every record held by a shard's result and every row of the index names a
\* file that is on disk, and a shard being processed holds one record for every
\* image it has saved.
C7_RecordsHaveFiles ==
  /\ \A r \in HeldRecords : r.Path \in DOMAIN disk /\ r.src \in saved
  /\ \A i \in DOMAIN index.rows :
       index.rows[i][1] \in DOMAIN disk /\ index.src[i] \in saved
  /\ \A w \in Workers : w.pc \in {"extract", "send"} =>
       { s \in saved : s[1] = w.path } = { r.src : r \in Range(w.images) }
  /\ mainPc = "extract" => saved = { r.src : r \in Range(mainImages) }

C7_Witness ==
  /\ inputIsDir /\ threads = MaxThreads
  /\ Len(index.rows) > 0
  /\ \E w \in Workers : w.pc = "extract" /\ Len(w.images) > 0

C9_AggregatorErrorsTerminal ==
  (Returned /\ index.err.kind \in {"write", "flush"} /\ firstErr = Nil)
    => (ret = index.err /\ ret # Nil)

C9_Witness ==
  /\ inputIsDir /\ Returned /\ firstErr = Nil
  /\ index.err.kind = "write"
  /\ Len(index.rows) > 0
  /\ Len(arrived) = MaxFiles
  /\ ret = index.err

\* first position of x in q (0: none)
FirstPos(q, x) ==
  IF \E i \in DOMAIN q : q[i] = x THEN CHOOSE i \in DOMAIN q : q[i] = x /\ \A j \in 1..(i - 1) : q[j] # x
  ELSE 0

\* C10: the rows of one shard are one contiguous block in decode order, and the
\* blocks follow each other in the order in which the results arrived.
C10_RowOrder ==
  /\ \A i \in DOMAIN index.src :
       /\ index.rows[i] = RowOf(index.src[i])
       /\ IF i > 1 /\ index.src[i - 1][1] = index.src[i][1]
          THEN index.src[i][2] = index.src[i - 1][2] + 1
          ELSE /\ index.src[i][2] = 1
               /\ \A j \in 1..(i - 1) : index.src[j][1] # index.src[i][1]
  /\ \A i, j \in DOMAIN index.src :
       (i < j /\ index.src[i][1] # index.src[j][1])
         => /\ FirstPos(arrived, index.src[i][1]) > 0
            /\ FirstPos(arrived, index.src[i][1]) < FirstPos(arrived, index.src[j][1])
  /\ Len(index.rows) = Len(index.src)

C10_Witness ==
  /\ inputIsDir /\ threads = MaxThreads /\ Returned /\ ret = Nil
  /\ Len(index.src) >= 3
  /\ index.src[1][1] > index.src[Len(index.src)][1]
  /\ index.src[1][2] = 1 /\ index.src[2] = <<index.src[1][1], 2>>

\* C11: the header is written to the index at most once, every index that holds
\* a row holds the header, written before the first row, and an index whose
\* header write failed never holds a row (Extract returns that error at once);
\* past the header write, and on every successful return, the index holds the
\* header exactly once; in both modes.
C11_HeaderOnce ==
  /\ index.header \in {0, 1}
  /\ index.rows # <<>> => (index.header = 1 /\ index.err.kind # "header")
  /\ index.err.kind = "header"
       => (index.rows = <<>> /\ index.header = 0 /\ Returned /\ ret = index.err)
  /\ mainPc \in {"labels", "range", "flush"} => index.header = 1
  /\ (Returned /\ ret = Nil) => index.header = 1

C11_Witness ==
  /\ inputIsDir /\ Returned /\ ret = Nil
  /\ index.header = 1
  /\ Len(arrived) = MaxFiles
  /\ \A i \in DOMAIN arrived : \E j \in DOMAIN index.src : index.src[j][1] = arrived[i]

\* the non-directory entries of a listing, in listing order
NonDirEntries(fs) == SelectSeq([i \in 1..Len(fs) |-> i], LAMBDA i : ~fs[i].isDir)

IsPrefix(a, b) == Len(a) <= Len(b) /\ \A i \in DOMAIN a : a[i] = b[i]

NoDuplicates(q) == \A i, j \in DOMAIN q : i # j => q[i] # q[j]

\* the workers that hold a shard (processing it or handing over its result)
BusyWorkers == { w \in Workers : w.pc \in {"extract", "send"} }

\* C12: in directory mode the paths received by workers are, in this order, the
\* first non-directory entries of the listing, and the path on offer is the
\* next one; no path is held by two workers or received twice, no result
\* arrives twice; and when Extract returns nil, every non-directory entry has
\* been received by one worker and its result has arrived once.
C12_ExactlyOnce ==
  inputIsDir =>
    /\ IsPrefix(taken, NonDirEntries(files))
    /\ enum.pc = "offer"
         => /\ Len(taken) < Len(NonDirEntries(files))
            /\ enum.i = NonDirEntries(files)[Len(taken) + 1]
    /\ \A w \in BusyWorkers :
         /\ wk[w] = 1
         /\ w.path \in Range(taken)
         /\ \A v \in BusyWorkers : v.path = w.path => v = w
         /\ w.path \notin Range(arrived)
    /\ NoDuplicates(arrived)
    /\ Range(arrived) \subseteq Range(taken)
    /\ (Returned /\ ret = Nil)
         => /\ taken = NonDirEntries(files)
            /\ Range(arrived) = Range(taken)
            /\ BusyWorkers = {}

C12_Witness ==
  /\ inputIsDir /\ Returned /\ ret = Nil
  /\ threads = MaxThreads
  /\ taken = <<1, 2>>
  /\ arrived = <<2, 1>>

\* the shards handed to a worker whose result has neither been received by the
\* aggregator nor been dropped by a failure or by cancellation
InFlight == Len(taken) - Len(arrived) - Cardinality(dropped)

\* the number of workers in the pool, whatever they are doing
PoolSize == BagCardinality(wk)

\* the entries the enumerator has passed in its loop, the one on offer included
Enumerated ==
  IF enum.pc = "offer" THEN Cardinality({ f \in 1..enum.i : ~files[f].isDir })
  ELSE Len(taken)

\* C13: in every state of a directory-mode run the number of shards handed to a
\* worker whose result has not been received by the aggregator (nor dropped) is
\* the number of workers holding a shard, so at most the size of the pool,
\* however many shards there are; and the enumerator is at most the one path on
\* offer ahead of the workers.
C13_Backpressure ==
  inputIsDir =>
    /\ InFlight >= 0
    /\ InFlight = Cardinality(BusyWorkers)
    /\ InFlight <= PoolSize
    /\ PoolSize = NumWorkers(threads)
    /\ Enumerated - Len(taken) \in {0, 1}
    /\ enum.pc = "offer" => Enumerated = Len(taken) + 1

C13_Witness ==
  /\ inputIsDir /\ threads = 1
  /\ Len(NonDirEntries(files)) = MaxFiles
  /\ Len(taken) = MaxFiles
  /\ InFlight = 1
  /\ Len(arrived) = MaxFiles - 1

\* C14: single-file mode. A shard that is read to its end and holds no entity
\* makes Extract return "No images found", and info.csv is never created. A
\* shard of k >= 1 entities that is processed without error, the index being
\* written without error too, makes Extract return nil with an index that
\* holds the header and the k rows of the entities in decode order.
C14_SingleFileOutcome ==
  ~inputIsDir =>
    LET k == Len(files[1].shard)
    IN /\ k = 0 => index = NoIndex
       /\ Returned =>
            /\ (k = 0 /\ ret.kind # "extractFile") => ret = NoImages
            /\ ret = NoImages => (k = 0 /\ index = NoIndex /\ disk = << >>)
            /\ (k >= 1 /\ ret.kind # "extractFile" /\ ~AggregatorFailed)
                 => /\ ret = Nil
                    /\ index.created /\ index.header = 1 /\ index.flushed
                    /\ Len(index.rows) = k
                    /\ index.rows = ExpectedRows
            /\ ret = Nil => (k >= 1 /\ index.rows = ExpectedRows)

C14_Witness ==
  /\ ~inputIsDir /\ Returned
  /\ Len(files[1].shard) = 0
  /\ ret = NoImages
  /\ ~index.created

\* the input directory holds no non-directory entry
ZeroShards == inputIsDir /\ \A f \in DOMAIN files : files[f].isDir

\* C15: directory mode, no non-directory entry in the input directory. The
\* enumerator offers no path, no worker processes anything (each is waiting
\* for a path or has returned), no image and no row is written, the run can
\* always go on until Extract has returned, and Extract then returns nil with
\* an index that holds the header only, unless ReadDir or the writing of the
\* index failed; it never returns "No images found". For every thread count.
C15_ZeroShards ==
  ZeroShards =>
    /\ taken = <<>> /\ enum.pc # "offer"
    /\ \A w \in Workers : w \in {IdleWorker, DoneWorker}
    /\ saved = {} /\ DOMAIN disk = {} /\ index.rows = <<>>
    /\ ~Returned => ENABLED Next
    /\ Returned =>
         /\ ret # NoImages
         /\ (firstErr = Nil /\ ~AggregatorFailed)
              => /\ ret = Nil
                 /\ index.created /\ index.header = 1 /\ index.flushed
                 /\ GroupDone

C15_Witness ==
  /\ ZeroShards /\ Len(files) = MaxFiles
  /\ threads = MaxThreads
  /\ Returned /\ ret = Nil
  /\ index.header = 1 /\ index.rows = <<>> /\ index.flushed
  /\ wk[DoneWorker] = MaxThreads

\* the image file the entity at src is saved to
PathOf(src) == RowOf(src)[1]

\* the image files of a run without concurrency: every entity of the input is
\* saved in listing order, a later one replacing an earlier one of the same path
ExpectedDisk ==
  LET all == AllSrc(files, 1)
      last(p) == CHOOSE i \in DOMAIN all :
                   /\ PathOf(all[i]) = p
                   /\ \A j \in DOMAIN all : PathOf(all[j]) = p => j <= i
  IN [p \in { PathOf(all[i]) : i \in DOMAIN all } |-> EntityAt(all[last(p)]).Raw]

\* no two entities of different shards are saved to the same image file
CrossShardDistinct ==
  \A a, b \in Range(AllSrc(files, 1)) : a[1] # b[1] => PathOf(a) # PathOf(b)

\* C16 (as stated): every successful run ends with the same image files, paths
\* and contents, whatever the thread count and the interleaving, also when
\* entities of different shards are saved to the same file: the files are those
\* of the run without concurrency.
C16_SameImages ==
  (Returned /\ ret = Nil) => disk = ExpectedDisk

\* C16 (amended): every successful run ends with the same set of image paths;
\* the contents are the same too when no two entities of different shards are
\* saved to the same file, or when there is one worker, or in single-file mode.
\* With several workers the content of a file that entities of different
\* shards are saved to depends on the interleaving.
C16_SameImagesUnlessShared ==
  (Returned /\ ret = Nil) =>
    /\ DOMAIN disk = DOMAIN ExpectedDisk
    /\ (~inputIsDir \/ CrossShardDistinct \/ NumWorkers(threads) = 1) => disk = ExpectedDisk

C16_Witness ==
  /\ inputIsDir /\ Returned /\ ret = Nil
  /\ NumWorkers(threads) = 1
  /\ ~CrossShardDistinct
  /\ Len(arrived) = MaxFiles
  /\ Cardinality(saved) = MaxEntities
  /\ disk = ExpectedDisk

\* C17: directory mode with at least one worker. Once info.csv has been created
\* and the header written (Extract is in its receive loop), Extract eventually
\* returns, whatever the number of shards and whichever of the enumerator and
\* the workers fail; and when it returns from there, the enumerator and every
\* worker have returned and the result channel is closed.
C17_Termination ==
  /\ [](  (inputIsDir /\ Returned /\ index.header = 1)
            => (GroupDone /\ imagesClosed /\ closer = "done") )
  /\ (inputIsDir /\ NumWorkers(threads) >= 1 /\ mainPc = "range") ~> Returned

C17_Witness ==
  /\ inputIsDir /\ threads = MaxThreads
  /\ Returned /\ index.header = 1
  /\ Len(taken) = MaxFiles
  /\ firstErr.kind = "extractFile" /\ otherFail
  /\ GroupDone

\* C18: paths is closed by the enumerator when it returns and only then, and
\* the enumerator takes no step afterwards (no send, no second close); images
\* is closed by the goroutine of g.Wait only, after the enumerator and all
\* workers have returned, and not a second time; no worker can send on the
\* closed images; and the receive loop of Extract ends only when images is
\* closed, the whole pool having completed. Single-file mode has no channel.
C18_CloseSafety ==
  /\ ~inputIsDir => (~pathsClosed /\ ~imagesClosed)
  /\ inputIsDir =>
       /\ pathsClosed <=> enum.pc = "done"
       /\ pathsClosed => ~ENABLED EnumNext
       /\ imagesClosed <=> closer = "done"
       /\ imagesClosed
            => /\ GroupDone /\ pathsClosed /\ BusyWorkers = {}
               /\ ~ENABLED PoolNext
               /\ ~ENABLED CloserWait
       /\ (GroupDone /\ ~imagesClosed) => ENABLED CloserWait
       /\ (mainPc \in {"flush", "returned"} /\ ret.kind \notin {"create", "header"})
            => (imagesClosed /\ GroupDone)

C18_Witness ==
  /\ inputIsDir /\ threads = MaxThreads
  /\ pathsClosed /\ imagesClosed /\ Returned
  /\ gErr.kind = "extractFile" /\ ret = gErr
  /\ \E d \in dropped : d[2] = "canceled"

\* the shards whose processing failed
FailedShards ==
  IF inputIsDir THEN { d[1] : d \in { x \in dropped : x[2] = "failed" } }
  ELSE IF ret.kind = "extractFile" THEN {1} ELSE {}

\* the rows of the index that belong to shard f
RowsOf(f) == { j \in DOMAIN index.src : index.src[j][1] = f }

\* C19: a result that is handed over holds the records of all entities of its
\* shard (extractFile returns records only when it reached the end of the
\* shard), a shard whose processing failed hands over no result, and no row of
\* the index belongs to it; the images it saved before the failure stay on disk.
C19_FailedShardNoRows ==
  /\ \A f \in FailedShards :
       /\ RowsOf(f) = {}
       /\ f \notin Range(arrived)
       /\ \A w \in BusyWorkers : w.path # f
  /\ \A w \in Workers : w.pc = "send" => Len(w.images) = Len(files[w.path].shard)
  /\ (~inputIsDir /\ mainPc \in {"create", "labels", "flush"})
       => Len(mainImages) = Len(files[1].shard)
  /\ \A f \in Range(arrived) :
       index.err = Nil => Cardinality(RowsOf(f)) = Len(files[f].shard)
  /\ \A s \in saved : PathOf(s) \in DOMAIN disk

C19_Witness ==
  /\ inputIsDir /\ Returned
  /\ \E f \in FailedShards :
       /\ <<f, 1>> \in saved
       /\ PathOf(<<f, 1>>) \in DOMAIN disk
       /\ RowsOf(f) = {}
  /\ index.rows # <<>>

\* C20: directory mode runs `threads` workers when threads > 0 and one per CPU
\* when threads = 0; a negative thread count starts no worker, and then, for a
\* directory with a shard file, once ReadDir has listed it the enumerator stays
\* blocked on its first offer (no receiver, scope not cancelled), neither
\* channel is closed, and Extract, once in its receive loop, never returns: no
\* step is possible any more. (Extract returns only when ReadDir fails or when
\* info.csv cannot be created or its header not written.)
C20_WorkerCount ==
  inputIsDir =>
    /\ threads > 0 => PoolSize = threads
    /\ threads = 0 => PoolSize = NumCPU
    /\ threads < 0 => PoolSize = 0
    /\ (threads < 0 /\ ~ZeroShards) =>
         /\ taken = <<>> /\ saved = {} /\ index.rows = <<>>
         /\ enum.pc = "done" => firstErr.kind = "readdir"
         /\ enum.pc = "offer" =>
              /\ enum.i = NonDirEntries(files)[1]
              /\ ~ctxDone /\ ~pathsClosed /\ ~imagesClosed
              /\ ~ENABLED EnumNext /\ ~ENABLED CloserWait
              /\ mainPc = "range" => ~ENABLED Next
              /\ Returned => ret.kind \in {"create", "header"}
         /\ Returned => (ret.kind \in {"create", "header"} \/ ret = Err("readdir", 0, 0))

C20_Witness ==
  /\ inputIsDir /\ threads < 0 /\ ~ZeroShards
  /\ Len(NonDirEntries(files)) = MaxFiles
  /\ enum.pc = "offer"
  /\ mainPc = "range" /\ index.header = 1
  /\ ~ENABLED Next

====
